---------------------------- MODULE Spec2Model ----------------------------
(***************************************************************************)
(* Model of src/components/ClimateAIDashboard.tsx: the regional factor     *)
(* table, the historical-data transformer, the metric projector            *)
(* (calculateMetrics) and the dashboard component that holds the selected  *)
(* region and year, memoises the two derived values and exposes a          *)
(* simulated refresh.                                                      *)
(*                                                                         *)
(* JavaScript numbers are IEEE-754 binary64 values and Number.toFixed      *)
(* rounds the exact value of the double, so the arithmetic is modelled     *)
(* bit for bit: a double is a sign, a 53-bit mantissa and an exponent, and *)
(* every operation rounds to nearest, ties to even.  Mantissas do not fit  *)
(* in a machine integer of the model checker, so they are kept as          *)
(* little-endian sequences of 15-bit limbs.                                *)
(***************************************************************************)
EXTENDS Integers, Sequences, FiniteSets, TLC

(***************************************************************************)
(* Natural numbers of arbitrary size (little-endian limbs, no leading      *)
(* zero limb, zero is the empty sequence).                                 *)
(***************************************************************************)
Base == 2^15

RECURSIVE BNorm(_)
BNorm(a) ==
  IF a = <<>> THEN a
  ELSE IF a[Len(a)] = 0 THEN BNorm(SubSeq(a, 1, Len(a) - 1)) ELSE a

RECURSIVE BFromInt(_)
BFromInt(n) == IF n = 0 THEN <<>> ELSE <<n % Base>> \o BFromInt(n \div Base)

RECURSIVE BToIntFrom(_, _)
BToIntFrom(a, i) == IF i > Len(a) THEN 0 ELSE a[i] + Base * BToIntFrom(a, i + 1)

BToInt(a) == BToIntFrom(a, 1)

Limb(a, i) == IF i <= Len(a) THEN a[i] ELSE 0

\* the limbs of the number whose i-th limb-weighted term is s[i] < 2^30
RECURSIVE Carry(_, _, _)
Carry(s, i, c) ==
  IF i > Len(s) THEN (IF c = 0 THEN <<>> ELSE <<c % Base>> \o Carry(s, i, c \div Base))
  ELSE <<(s[i] + c) % Base>> \o Carry(s, i + 1, (s[i] + c) \div Base)

BAdd(a, b) ==
  Carry([i \in 1..(IF Len(a) < Len(b) THEN Len(b) ELSE Len(a)) |->
           Limb(a, i) + Limb(b, i)], 1, 0)

RECURSIVE BSubC(_, _, _, _)
BSubC(a, b, i, c) ==
  IF i > Len(a) THEN <<>>
  ELSE IF a[i] - Limb(b, i) - c < 0
       THEN <<a[i] - Limb(b, i) - c + Base>> \o BSubC(a, b, i + 1, 1)
       ELSE <<a[i] - Limb(b, i) - c>> \o BSubC(a, b, i + 1, 0)

\* a - b for a >= b
BSub(a, b) == BNorm(BSubC(a, b, 1, 0))

RECURSIVE BCmpFrom(_, _, _)
BCmpFrom(a, b, i) ==
  IF i = 0 THEN 0
  ELSE IF a[i] < b[i] THEN -1
  ELSE IF a[i] > b[i] THEN 1
  ELSE BCmpFrom(a, b, i - 1)

\* -1, 0 or 1 as a < b, a = b or a > b
BCmp(a, b) ==
  IF Len(a) < Len(b) THEN -1
  ELSE IF Len(a) > Len(b) THEN 1
  ELSE BCmpFrom(a, b, Len(a))

\* a * k for 0 <= k < Base
BMulSmall(a, k) ==
  IF k = 0 THEN <<>> ELSE Carry([i \in 1..Len(a) |-> a[i] * k], 1, 0)

RECURSIVE BMulFrom(_, _, _)
BMulFrom(a, b, j) ==
  IF j > Len(b) THEN <<>>
  ELSE BAdd(BMulSmall(a, b[j]), <<0>> \o BMulFrom(a, b, j + 1))

BMul(a, b) == BNorm(BMulFrom(a, b, 1))

\* quotient and remainder of the limbs 1..i of a by k, given the remainder r
\* of the limbs above i
RECURSIVE BDivSmallFrom(_, _, _, _)
BDivSmallFrom(a, k, i, r) ==
  IF i = 0 THEN [q |-> <<>>, r |-> r]
  ELSE LET rest == BDivSmallFrom(a, k, i - 1, (r * Base + a[i]) % k)
       IN  [q |-> Append(rest.q, (r * Base + a[i]) \div k), r |-> rest.r]

\* the remainder of a by k, 0 < k < Base
BDivRem(a, k) == BDivSmallFrom(a, k, Len(a), 0).r

\* the quotient of a by k, 0 < k < Base
BDivQuot(a, k) == BNorm(BDivSmallFrom(a, k, Len(a), 0).q)

Zeros(n) == [i \in 1..n |-> 0]

\* a * 2^n
BShl(a, n) ==
  IF a = <<>> THEN a
  ELSE Zeros(n \div 15) \o BMulSmall(a, 2^(n % 15))

\* floor(a / 2^n)
BShr(a, n) ==
  IF n \div 15 >= Len(a) THEN <<>>
  ELSE BDivQuot(SubSeq(a, n \div 15 + 1, Len(a)), 2^(n % 15))

RECURSIVE BitLenSmall(_)
BitLenSmall(k) == IF k = 0 THEN 0 ELSE 1 + BitLenSmall(k \div 2)

BBitLen(a) == IF a = <<>> THEN 0 ELSE 15 * (Len(a) - 1) + BitLenSmall(a[Len(a)])

\* bit i of a, bit 0 the lowest
BBit(a, i) == (Limb(a, i \div 15 + 1) \div 2^(i % 15)) % 2

\* some bit of a below bit n is set
BLowBits(a, n) ==
  \/ \E i \in 1..(n \div 15) : Limb(a, i) /= 0
  \/ Limb(a, n \div 15 + 1) % 2^(n % 15) /= 0

RECURSIVE TrailingZeroBits(_)
TrailingZeroBits(k) == IF k % 2 = 1 THEN 0 ELSE 1 + TrailingZeroBits(k \div 2)

RECURSIVE BTrailingZerosFrom(_, _)
BTrailingZerosFrom(a, i) ==
  IF a[i] = 0 THEN 15 + BTrailingZerosFrom(a, i + 1) ELSE TrailingZeroBits(a[i])

\* the number of trailing zero bits of a /= 0
BTrailingZeros(a) == BTrailingZerosFrom(a, 1)

(***************************************************************************)
(* IEEE-754 binary64 numbers: [neg, m, e] stands for (-1)^neg * m * 2^e.   *)
(* Zero has m = <<>> and e = 0, every other value has a mantissa of        *)
(* exactly 53 bits.  The magnitudes of this program stay far from the      *)
(* subnormal and the overflow range, so neither is represented.            *)
(***************************************************************************)
MantBits == 53

Zero(neg) == [neg |-> neg, m |-> <<>>, e |-> 0]

IsZero(x) == x.m = <<>>

\* x < 0
IsNegative(x) == x.neg /\ ~IsZero(x)

\* a mantissa that rounding up carried to 54 bits is a power of two
Renorm(neg, q, e) ==
  IF BBitLen(q) > MantBits
  THEN [neg |-> neg, m |-> BShr(q, 1), e |-> e + 1]
  ELSE [neg |-> neg, m |-> q, e |-> e]

\* dropping the sh low bits of m rounds up: the first dropped bit is set and
\* either more is dropped below it or the kept part is odd (ties to even)
RoundsUp(m, sh, sticky) ==
  /\ BBit(m, sh - 1) = 1
  /\ (sticky \/ BLowBits(m, sh - 1) \/ BBit(m, sh) = 1)

RoundTo(neg, m, e, sticky, sh) ==
  IF sh <= 0
  THEN [neg |-> neg, m |-> BShl(m, -sh), e |-> e + sh]
  ELSE Renorm(neg,
              BAdd(BShr(m, sh), IF RoundsUp(m, sh, sticky) THEN <<1>> ELSE <<>>),
              e + sh)

\* m * 2^e (plus a non-zero fraction of the last bit when sticky), rounded
\* to nearest, ties to even
RoundPack(neg, m, e, sticky) ==
  IF m = <<>> THEN Zero(neg) ELSE RoundTo(neg, m, e, sticky, BBitLen(m) - MantBits)

fromInt(n) == RoundPack(n < 0, BFromInt(IF n < 0 THEN -n ELSE n), 0, FALSE)

fneg(x) == [x EXCEPT !.neg = ~x.neg]

fmul(x, y) ==
  IF IsZero(x) \/ IsZero(y) THEN Zero(x.neg /= y.neg)
  ELSE RoundPack(x.neg /= y.neg, BMul(x.m, y.m), x.e + y.e, FALSE)

\* a * 2^e / k for 0 < k < Base: 18 more bits of quotient than a has
DivSmall(neg, a, k, e) ==
  RoundPack(neg, BDivQuot(BShl(a, 18), k), e - 18, BDivRem(BShl(a, 18), k) /= 0)

\* x / y for y /= 0 whose mantissa has at most 15 significant bits, which
\* holds of every divisor of this program (27, and the powers of ten of the
\* decimal literals)
fdiv(x, y) ==
  IF IsZero(x) THEN Zero(x.neg /= y.neg)
  ELSE DivSmall(x.neg /= y.neg, x.m,
                BToInt(BShr(y.m, BTrailingZeros(y.m))),
                x.e - y.e - BTrailingZeros(y.m))

\* ax * 2^e and ay * 2^e with signs nx and ny, added; c compares ax with ay
AddAligned(nx, ax, ny, ay, e, c) ==
  IF nx = ny THEN RoundPack(nx, BAdd(ax, ay), e, FALSE)
  ELSE IF c = 0 THEN Zero(FALSE)
  ELSE RoundPack(IF c > 0 THEN nx ELSE ny,
                 BSub(IF c > 0 THEN ax ELSE ay, IF c > 0 THEN ay ELSE ax),
                 e, FALSE)

AddAt(x, y, e) ==
  AddAligned(x.neg, BShl(x.m, x.e - e), y.neg, BShl(y.m, y.e - e), e,
             BCmp(BShl(x.m, x.e - e), BShl(y.m, y.e - e)))

fadd(x, y) ==
  IF IsZero(x) /\ IsZero(y) THEN Zero(x.neg /\ y.neg)
  ELSE IF IsZero(x) THEN y
  ELSE IF IsZero(y) THEN x
  ELSE AddAt(x, y, IF x.e < y.e THEN x.e ELSE y.e)

fsub(x, y) == fadd(x, fneg(y))

\* the value of the decimal literal n/d of the source text (d a power of 10)
Lit(n, d) == fdiv(fromInt(n), fromInt(d))

(***************************************************************************)
(* Strings are sequences of one-character strings.                         *)
(***************************************************************************)
DigitChar == <<"0", "1", "2", "3", "4", "5", "6", "7", "8", "9">>

DigitVal(c) == CHOOSE d \in 0..9 : DigitChar[d + 1] = c

IsDigit(c) == \E d \in 0..9 : DigitChar[d + 1] = c

RECURSIVE BDigits(_)
BDigits(a) ==
  IF a = <<>> THEN <<>>
  ELSE Append(BDigits(BDivQuot(a, 10)), DigitChar[BDivRem(a, 10) + 1])

RECURSIVE PadZeros(_, _)
PadZeros(s, n) == IF Len(s) >= n THEN s ELSE PadZeros(<<"0">> \o s, n)

\* the decimal digits ds with a point before the last f of them
Pointed(neg, ds, f) ==
  (IF neg THEN <<"-">> ELSE <<>>)
    \o SubSeq(ds, 1, Len(ds) - f)
    \o (IF f = 0 THEN <<>> ELSE <<".">> \o SubSeq(ds, Len(ds) - f + 1, Len(ds)))

\* the integer n for which n / 10^f is closest to m * 2^e, the larger n on
\* a tie
ScaledRound(m, e, f) ==
  IF e >= 0 THEN BMulSmall(BShl(m, e), 10^f)
  ELSE BShr(BAdd(BMulSmall(m, 2 * 10^f), BShl(<<1>>, -e)), 1 - e)

\* Number.prototype.toFixed(f) for 0 <= f <= 3: that n written with f
\* digits after the point, and a minus sign when x < 0
toFixed(x, f) ==
  Pointed(IsNegative(x), PadZeros(BDigits(ScaledRound(x.m, x.e, f)), f + 1), f)

RECURSIVE BParse(_, _, _)
BParse(s, i, acc) ==
  IF i > Len(s) THEN acc
  ELSE IF s[i] = "." THEN BParse(s, i + 1, acc)
  ELSE BParse(s, i + 1, BAdd(BMulSmall(acc, 10), BFromInt(DigitVal(s[i]))))

FracDigits(s) ==
  IF \E i \in 1..Len(s) : s[i] = "."
  THEN Len(s) - (CHOOSE i \in 1..Len(s) : s[i] = ".")
  ELSE 0

Unsigned(s) == IF s /= <<>> /\ s[1] = "-" THEN SubSeq(s, 2, Len(s)) ELSE s

\* Number(s) for a decimal string s as toFixed writes it: the double nearest
\* to the decimal
Number(s) ==
  fdiv(RoundPack(s /= <<>> /\ s[1] = "-", BParse(Unsigned(s), 1, <<>>), 0, FALSE),
       fromInt(10^FracDigits(s)))

\* parseInt(s) for a string of decimal digits
RECURSIVE parseIntFrom(_, _, _)
parseIntFrom(s, i, acc) ==
  IF i > Len(s) \/ ~IsDigit(s[i]) THEN acc
  ELSE parseIntFrom(s, i + 1, 10 * acc + DigitVal(s[i]))

parseInt(s) == parseIntFrom(s, 1, 0)

(***************************************************************************)
(* The constant tables of the component.                                   *)
(***************************************************************************)
regionsWithAntarctica ==
  <<"Global", "North America", "Europe", "Asia", "Africa", "South America",
    "Oceania", "Antarctica">>

regions ==
  <<"Global", "North America", "Europe", "Asia", "Africa", "South America",
    "Oceania">>

Range(s) == {s[i] : i \in DOMAIN s}

Fields == {"temperature", "precipitation", "seaLevel", "extremeEvents"}

\* the literals of the factor table as written, in tenths (1 is 10 tenths)
regionalFactorsTenths ==
  [r \in {"Global", "North America", "Europe", "Asia", "Africa", "South America",
          "Oceania"} |->
     CASE r = "Global" ->
            [temperature |-> 10, precipitation |-> 10, seaLevel |-> 10, extremeEvents |-> 10]
       [] r = "North America" ->
            [temperature |-> 12, precipitation |-> 13, seaLevel |-> 8, extremeEvents |-> 11]
       [] r = "Europe" ->
            [temperature |-> 11, precipitation |-> 12, seaLevel |-> 9, extremeEvents |-> 12]
       [] r = "Asia" ->
            [temperature |-> 13, precipitation |-> 14, seaLevel |-> 12, extremeEvents |-> 13]
       [] r = "Africa" ->
            [temperature |-> 14, precipitation |-> 7, seaLevel |-> 11, extremeEvents |-> 14]
       [] r = "South America" ->
            [temperature |-> 11, precipitation |-> 15, seaLevel |-> 10, extremeEvents |-> 12]
       [] r = "Oceania" ->
            [temperature |-> 12, precipitation |-> 9, seaLevel |-> 13, extremeEvents |-> 11]]

\* the factor table at run time: each literal is the double nearest to it
regionalFactors ==
  [r \in DOMAIN regionalFactorsTenths |->
     [f \in Fields |-> Lit(regionalFactorsTenths[r][f], 10)]]

\* the temperatures of the base series as written, in tenths
baseHistoricalTenths ==
  <<[year |-> 1900, temperature |-> -2],
    [year |-> 1950, temperature |-> 0],
    [year |-> 2000, temperature |-> 5],
    [year |-> 2023, temperature |-> 11],
    [year |-> 2030, temperature |-> 13],
    [year |-> 2040, temperature |-> 14],
    [year |-> 2050, temperature |-> 16]>>

baseHistoricalData ==
  [i \in DOMAIN baseHistoricalTenths |->
     [year        |-> baseHistoricalTenths[i].year,
      temperature |-> Lit(baseHistoricalTenths[i].temperature, 10)]]

co2Data ==
  <<[year |-> 1900, level |-> 295],
    [year |-> 1950, level |-> 310],
    [year |-> 2000, level |-> 370],
    [year |-> 2023, level |-> 420],
    [year |-> 2030, level |-> 450],
    [year |-> 2040, level |-> 490],
    [year |-> 2050, level |-> 530]>>

\* reading a property of undefined throws
TypeError == [thrown |-> "TypeError"]

(***************************************************************************)
(* The two pure functions.                                                 *)
(***************************************************************************)
getRegionalHistoricalDataOneDigit(region) ==
  IF region \notin DOMAIN regionalFactors THEN TypeError
  ELSE LET factor == regionalFactors[region].temperature
       IN  [i \in DOMAIN baseHistoricalData |->
              [year        |-> baseHistoricalData[i].year,
               temperature |->
                 Number(toFixed(fmul(baseHistoricalData[i].temperature, factor), 1))]]

getRegionalHistoricalData(region) ==
  IF region \notin DOMAIN regionalFactors THEN TypeError
  ELSE LET factor == regionalFactors[region].temperature
       IN  [i \in DOMAIN baseHistoricalData |->
              [year        |-> baseHistoricalData[i].year,
               temperature |->
                 Number(toFixed(fmul(baseHistoricalData[i].temperature, factor), 2))]]

baseYearLate == 2023 + 1

baseYear == 2023

\* 2050 - 2023
span == fromInt(2050 - 2023)

baseTempIncreaseFalling(yearDiff) ==
  fsub(Lit(11, 10), fdiv(fmul(yearDiff, fsub(Lit(16, 10), Lit(11, 10))), span))

baseTempIncrease(yearDiff) ==
  fadd(Lit(11, 10), fdiv(fmul(yearDiff, fsub(Lit(16, 10), Lit(11, 10))), span))

basePrecipChangeClamped(yearDiff) ==
  IF IsNegative(yearDiff) THEN Zero(FALSE)
  ELSE fdiv(fmul(yearDiff, Lit(53, 10)), span)

basePrecipChange(yearDiff) == fdiv(fmul(yearDiff, Lit(53, 10)), span)

baseSeaLevelRiseWrongRate(yearDiff) == fdiv(fmul(yearDiff, Lit(268, 10)), span)

baseSeaLevelRise(yearDiff) == fdiv(fmul(yearDiff, Lit(263, 10)), span)

baseExtremeEvents(yearDiff) == fdiv(fmul(yearDiff, fromInt(32)), span)

calculateMetrics(year, region) ==
  IF region \notin DOMAIN regionalFactors THEN TypeError
  ELSE LET yearDiff == fromInt(year - baseYear)
           factors  == regionalFactors[region]
       IN  [temperature   |->
              toFixed(fmul(baseTempIncrease(yearDiff), factors.temperature), 1),
            precipitation |->
              toFixed(fmul(basePrecipChange(yearDiff), factors.precipitation), 1),
            seaLevel      |->
              toFixed(fmul(baseSeaLevelRise(yearDiff), factors.seaLevel), 1),
            extremeEvents |->
              toFixed(fmul(baseExtremeEvents(yearDiff), factors.extremeEvents), 1)]

(***************************************************************************)
(* The controls.  The range input reports its position as a string of      *)
(* digits between its min and max attributes; the select reports the value *)
(* of one of its options, one per element of regions.                      *)
(***************************************************************************)
SliderMinEarly == 2023 - 1

SliderMin == 2023

SliderMaxLate == 2050 + 1

SliderMax == 2050

RECURSIVE IntToString(_)
IntToString(n) ==
  IF n < 10 THEN <<DigitChar[n + 1]>>
  ELSE Append(IntToString(n \div 10), DigitChar[(n % 10) + 1])

SliderValues == {IntToString(y) : y \in SliderMin..SliderMax}

OptionValues == Range(regions)

\* calculateMetrics and getRegionalHistoricalData tabulated over what the
\* controls can select, so that a render looks a value up instead of
\* redoing the arithmetic
metricsTable ==
  [y \in SliderMin..SliderMax, r \in OptionValues |-> calculateMetrics(y, r)]

historicalTable == [r \in OptionValues |-> getRegionalHistoricalData(r)]

Metrics(year, region) == metricsTable[year, region]

Historical(region) == historicalTable[region]

(***************************************************************************)
(* The component.                                                          *)
(***************************************************************************)
RefreshDelay == 1500

\* Time passes in steps of TickMs milliseconds.
TickMs == 500

\* At most MaxRefreshes refreshes are started in a behaviour.
MaxRefreshes == 2

\* The projector is also called directly with years from
\* SliderMin - YearsBelow to SliderMax + YearsAbove.
YearsBelow == 70

YearsAbove == 30

VARIABLES
  selectedRegion,   \* useState<Region>('Global')
  selectedYear,     \* useState(2050)
  metricsMemo,      \* the cell of useMemo(calculateMetrics): deps and value
  historicalMemo,   \* the cell of useMemo(getRegionalHistoricalData)
  view,             \* what the last render handed to the cards and charts
  refreshes,        \* the handleRefresh calls, in call order
  probe             \* a direct call of calculateMetrics and its result

vars ==
  <<selectedRegion, selectedYear, metricsMemo, historicalMemo, view, refreshes,
    probe>>

\* useMemo: the value is recomputed only when the dependencies changed
useMemo(cell, value, deps) ==
  IF cell.deps = deps THEN cell ELSE [deps |-> deps, value |-> value]

metricsDepsYearOnly(year, region) == <<year>>

metricsDeps(year, region) == <<year, region>>

historicalDeps(year, region) == <<region>>

MetricCards(m, region, year) ==
  IF m = TypeError THEN TypeError
  ELSE [temperature   |-> <<"+">> \o m.temperature \o <<"°", "C">>,
        precipitation |-> m.precipitation \o <<"%">>,
        seaLevel      |-> <<"+">> \o m.seaLevel \o <<"c", "m">>,
        extremeEvents |-> <<"+">> \o m.extremeEvents \o <<"%">>]

\* the end of a render: the memo cells are kept and the elements returned
Commit(region, year, m, h) ==
  /\ metricsMemo' = m
  /\ historicalMemo' = h
  /\ view' = [cards     |-> MetricCards(m.value, region, year),
              yearLabel |-> year,
              lineChart |-> h.value,
              areaChart |-> co2Data]

\* one render of the component with the given state
Render(region, year, mCell, hCell) ==
  Commit(region, year,
         useMemo(mCell, Metrics(year, region), metricsDeps(year, region)),
         useMemo(hCell, Historical(region), historicalDeps(year, region)))

metrics == metricsMemo.value

historicalData == historicalMemo.value

\* the result field of a call that has not been made
NotCalled == [pending |-> TRUE]

NoProbe == [year |-> SliderMax, region |-> regions[1], called |-> FALSE,
            result |-> NotCalled]

Mount ==
  /\ selectedRegion = "Global"
  /\ selectedYear = 2050
  /\ metricsMemo = [deps  |-> metricsDeps(2050, "Global"),
                    value |-> Metrics(2050, "Global")]
  /\ historicalMemo = [deps  |-> historicalDeps(2050, "Global"),
                       value |-> Historical("Global")]
  /\ view = [cards     |-> MetricCards(metricsMemo.value, "Global", 2050),
             yearLabel |-> 2050,
             lineChart |-> historicalMemo.value,
             areaChart |-> co2Data]
  /\ refreshes = <<>>

Init == Mount /\ probe = NoProbe

\* onChange of the select
SelectRegion(v) ==
  /\ selectedRegion' = v
  /\ selectedYear' = selectedYear
  /\ Render(v, selectedYear, metricsMemo, historicalMemo)
  /\ UNCHANGED <<refreshes, probe>>

\* onChange of the range input
SelectYear(v) ==
  /\ selectedYear' = parseInt(v)
  /\ selectedRegion' = selectedRegion
  /\ Render(selectedRegion, parseInt(v), metricsMemo, historicalMemo)
  /\ UNCHANGED <<refreshes, probe>>

\* handleRefresh up to its await: a timer of 1500 ms is set
HandleRefresh ==
  /\ Len(refreshes) < MaxRefreshes
  /\ refreshes' = Append(refreshes, [state |-> "waiting", remaining |-> RefreshDelay])
  /\ UNCHANGED <<selectedRegion, selectedYear, metricsMemo, historicalMemo, view, probe>>

Waiting(i) == i \in DOMAIN refreshes /\ refreshes[i].state = "waiting"

Resolved(i) == i \in DOMAIN refreshes /\ refreshes[i].state = "resolved"

Max0(n) == IF n < 0 THEN 0 ELSE n

\* TickMs milliseconds pass
Tick ==
  /\ \E i \in DOMAIN refreshes : Waiting(i) /\ refreshes[i].remaining > 0
  /\ refreshes' =
       [i \in DOMAIN refreshes |->
          IF Waiting(i)
          THEN [refreshes[i] EXCEPT !.remaining = Max0(@ - TickMs)]
          ELSE refreshes[i]]
  /\ UNCHANGED <<selectedRegion, selectedYear, metricsMemo, historicalMemo, view, probe>>

TimerFireCancelsOthers(i) ==
  /\ Waiting(i)
  /\ refreshes[i].remaining = 0
  /\ \A j \in 1..(i - 1) : ~Waiting(j)
  /\ refreshes' =
       [j \in DOMAIN refreshes |->
          IF j = i THEN [refreshes[j] EXCEPT !.state = "resolved"]
          ELSE IF Waiting(j) THEN [refreshes[j] EXCEPT !.state = "cancelled"]
          ELSE refreshes[j]]
  /\ UNCHANGED <<selectedRegion, selectedYear, metricsMemo, historicalMemo, view, probe>>

\* the timer of call i fires and the promise of that call resolves; timers
\* of equal delay fire in the order they were set
TimerFire(i) ==
  /\ Waiting(i)
  /\ refreshes[i].remaining = 0
  /\ \A j \in 1..(i - 1) : ~Waiting(j)
  /\ refreshes' = [refreshes EXCEPT ![i].state = "resolved"]
  /\ UNCHANGED <<selectedRegion, selectedYear, metricsMemo, historicalMemo, view, probe>>

Next ==
  \/ \E v \in OptionValues : SelectRegion(v)
  \/ \E v \in SliderValues : SelectYear(v)
  \/ HandleRefresh
  \/ Tick
  \/ \E i \in 1..MaxRefreshes : TimerFire(i)

Spec == Init /\ [][Next]_vars

\* time passes and due timers are run by the event loop
FairSpec ==
  /\ Spec
  /\ WF_vars(Tick)
  /\ \A i \in 1..MaxRefreshes : WF_vars(TimerFire(i))

(***************************************************************************)
(* The projector called directly, with years inside and outside the range  *)
(* of the slider.                                                          *)
(***************************************************************************)
ProbeYears == (SliderMin - YearsBelow)..(SliderMax + YearsAbove)

ProbeInit ==
  /\ Mount
  /\ probe \in [year : ProbeYears, region : Range(regions), called : {FALSE},
                result : {NotCalled}]

Project ==
  /\ ~probe.called
  /\ probe' = [probe EXCEPT !.called = TRUE,
                            !.result = calculateMetrics(probe.year, probe.region)]
  /\ UNCHANGED <<selectedRegion, selectedYear, metricsMemo, historicalMemo, view,
                 refreshes>>

ProbeNext == Project

ProbeSpec == ProbeInit /\ [][ProbeNext]_vars

(***************************************************************************)
(* Vocabulary of the properties.                                           *)
(***************************************************************************)
\* the number a decimal string denotes, with its point removed: "-8.8" is -88
Scaled(s) ==
  LET neg  == s /= <<>> /\ s[1] = "-"
      body == IF neg THEN SubSeq(s, 2, Len(s)) ELSE s
      n    == BToInt(BParse(body, 1, <<>>))
  IN  IF neg THEN -n ELSE n

Abs(n) == IF n < 0 THEN -n ELSE n

\* digits, a point, one digit; with a leading minus sign when signed
OneDecimal(s, signed) ==
  LET body == IF signed /\ s /= <<>> /\ s[1] = "-" THEN SubSeq(s, 2, Len(s)) ELSE s
  IN  /\ Len(body) >= 3
      /\ body[Len(body) - 1] = "."
      /\ \A i \in 1..Len(body) : i /= Len(body) - 1 => IsDigit(body[i])

\* the base series times a factor, computed in exact decimal arithmetic: a
\* temperature in tenths times a factor in tenths is a whole number of
\* hundredths, and the point holds the double nearest to it
ExactScaledSeries ==
  [r \in DOMAIN regionalFactorsTenths |->
     [i \in DOMAIN baseHistoricalTenths |->
        [year        |-> baseHistoricalTenths[i].year,
         temperature |-> Lit(baseHistoricalTenths[i].temperature
                               * regionalFactorsTenths[r].temperature, 100)]]]

\* ten times the exact value of the linear formula is
\* (27 * a + d * b) * k / 270 for an intercept of a tenths, a rise of b tenths
\* over the 27 years, d years after 2023 and a factor of k tenths; n tenths
\* is that value rounded when it is no further than half a tenth from it
RoundsLinear(n, a, b, d, k) == Abs(270 * n - (27 * a + d * b) * k) <= 135

(***************************************************************************)
(* C1: calculateMetrics(2050, 'Global') is temperature "1.6",              *)
(* precipitation "5.3", seaLevel "26.3" and extremeEvents "32.0", and      *)
(* these are the metrics of the initial state: whenever the selection is   *)
(* Global and 2050 the metrics are exactly these four strings.             *)
(***************************************************************************)
C1_GlobalAt2050 ==
  (selectedYear = 2050 /\ selectedRegion = "Global") =>
    metrics = [temperature   |-> <<"1", ".", "6">>,
               precipitation |-> <<"5", ".", "3">>,
               seaLevel      |-> <<"2", "6", ".", "3">>,
               extremeEvents |-> <<"3", "2", ".", "0">>]

C1_Witness ==
  /\ selectedYear = 2050 /\ selectedRegion = "Global"
  /\ metricsMemo.deps = <<2050, "Global">>
  /\ view.cards.seaLevel = <<"+", "2", "6", ".", "3", "c", "m">>

(***************************************************************************)
(* C2: for a fixed region, moving the year forward never lowers the        *)
(* displayed one-decimal temperature read as a number.                     *)
(***************************************************************************)
C2_TemperatureMonotone ==
  [][(selectedRegion' = selectedRegion /\ selectedYear' >= selectedYear) =>
       Scaled(metrics'.temperature) >= Scaled(metrics.temperature)]_vars

C2_Witness ==
  /\ selectedRegion = "Asia" /\ selectedYear = 2037
  /\ Scaled(metrics.temperature) > 14
  /\ Scaled(metrics.temperature) < 21

(***************************************************************************)
(* C3: at year 2023 the temperature is 1.1 times the region's temperature  *)
(* factor rounded to one decimal digit, and precipitation, seaLevel and    *)
(* extremeEvents are all "0.0" whatever the factors are.                   *)
(***************************************************************************)
C3_BaseYear ==
  selectedYear = 2023 =>
    /\ OneDecimal(metrics.temperature, FALSE)
    /\ Scaled(metrics.temperature)
         = (11 * regionalFactorsTenths[selectedRegion].temperature + 5) \div 10
    /\ metrics.precipitation = <<"0", ".", "0">>
    /\ metrics.seaLevel = <<"0", ".", "0">>
    /\ metrics.extremeEvents = <<"0", ".", "0">>

C3_Witness ==
  /\ selectedYear = 2023 /\ selectedRegion = "Africa"
  /\ metrics.temperature = <<"1", ".", "5">>

(***************************************************************************)
(* C4: the historical series of a region has the 7 years of the base       *)
(* series in the same order, each temperature the base temperature times   *)
(* the region's temperature factor rounded to 2 decimal digits; for Global *)
(* it is the base series point for point, for Asia the 2023 point is 1.43. *)
(***************************************************************************)
C4_HistoricalSeries ==
  /\ Len(historicalData) = 7
  /\ [i \in 1..7 |-> historicalData[i].year]
       = <<1900, 1950, 2000, 2023, 2030, 2040, 2050>>
  /\ historicalData = ExactScaledSeries[selectedRegion]
  /\ selectedRegion = "Global" => historicalData = baseHistoricalData
  /\ selectedRegion = "Asia" =>
       /\ historicalData[4].year = 2023
       /\ toFixed(historicalData[4].temperature, 4) = <<"1", ".", "4", "3", "0", "0">>
       /\ historicalData[4].temperature = Lit(143, 100)

C4_Witness ==
  /\ selectedRegion = "Asia"
  /\ historicalMemo.deps = <<"Asia">>
  /\ view.lineChart[4] = [year |-> 2023, temperature |-> Lit(143, 100)]

(***************************************************************************)
(* C5: the factor table is a total function on the region set: each of the *)
(* 7 names the selector offers is a key exactly once, there is no other    *)
(* key, all four factors of every region are strictly positive, and in     *)
(* every reachable state the lookup of the selected region is defined.     *)
(***************************************************************************)
C5_FactorTableTotal ==
  /\ Len(regions) = 7
  /\ Cardinality(Range(regions)) = 7
  /\ OptionValues = DOMAIN regionalFactors
  /\ \A r \in DOMAIN regionalFactors :
       /\ DOMAIN regionalFactors[r] = Fields
       /\ \A f \in Fields :
            ~IsZero(regionalFactors[r][f]) /\ ~regionalFactors[r][f].neg
  /\ selectedRegion \in DOMAIN regionalFactors
  /\ metrics /= TypeError
  /\ historicalData /= TypeError

C5_Witness ==
  /\ selectedRegion = "Oceania"
  /\ metricsMemo.deps[2] = "Oceania"
  /\ DOMAIN metrics = Fields

(***************************************************************************)
(* C6: in every reachable state selectedYear is an integer from 2023 to    *)
(* 2050 and selectedRegion is one of the 7 enumerated regions.             *)
(***************************************************************************)
C6_SelectionsInRange ==
  /\ selectedYear \in 2023..2050
  /\ selectedRegion \in {"Global", "North America", "Europe", "Asia", "Africa",
                         "South America", "Oceania"}

C6_Witness ==
  /\ selectedYear = 2023
  /\ selectedRegion = "Oceania"
  /\ \E i \in DOMAIN refreshes : Resolved(i)

(***************************************************************************)
(* C7: refreshes are independent: every refresh in flight eventually       *)
(* resolves whatever the others do and whatever is selected meanwhile,     *)
(* none is cancelled, merged or failed, a resolved one stays resolved, and *)
(* starting or resolving a refresh (or the passing of time) leaves the     *)
(* selections and the derived values unchanged.                            *)
(***************************************************************************)
C7_RefreshIndependent ==
  /\ \A i \in 1..MaxRefreshes : Waiting(i) ~> Resolved(i)
  /\ [][/\ Len(refreshes') >= Len(refreshes)
        /\ \A i \in DOMAIN refreshes :
             /\ refreshes'[i].state \in {"waiting", "resolved"}
             /\ refreshes[i].state = "resolved" => refreshes'[i] = refreshes[i]
        /\ refreshes' /= refreshes =>
             UNCHANGED <<selectedRegion, selectedYear, metricsMemo,
                         historicalMemo, view>>]_vars

C7_Witness ==
  /\ Len(refreshes) >= 2
  /\ Resolved(1)
  /\ Waiting(2)
  /\ selectedYear /= 2050 /\ selectedRegion /= "Global"

(***************************************************************************)
(* C8: calculateMetrics is total and unclamped: for years below 2023 and   *)
(* above 2050 as well it returns four one-decimal fields without throwing, *)
(* each the rounding of the same linear formula as inside the range, so    *)
(* that below 2023 precipitation, seaLevel and extremeEvents are negative. *)
(***************************************************************************)
C8_TotalUnclamped ==
  probe.called =>
    LET res == probe.result
        d   == probe.year - 2023
        k   == regionalFactorsTenths[probe.region]
    IN  /\ res /= TypeError
        /\ DOMAIN res = Fields
        /\ \A f \in Fields : OneDecimal(res[f], TRUE)
        /\ RoundsLinear(Scaled(res.temperature), 11, 16 - 11, d, k.temperature)
        /\ RoundsLinear(Scaled(res.precipitation), 0, 53, d, k.precipitation)
        /\ RoundsLinear(Scaled(res.seaLevel), 0, 263, d, k.seaLevel)
        /\ RoundsLinear(Scaled(res.extremeEvents), 0, 320, d, k.extremeEvents)
        /\ d < 0 =>
             /\ Scaled(res.precipitation) < 0
             /\ Scaled(res.seaLevel) < 0
             /\ Scaled(res.extremeEvents) < 0

C8_Witness ==
  /\ probe.called
  /\ probe.year = 2010 /\ probe.region = "Africa"
  /\ probe.result.precipitation = <<"-", "1", ".", "8">>

(***************************************************************************)
(* C9: what is shown is always computed from the current selections: the   *)
(* metrics are calculateMetrics(selectedYear, selectedRegion), the         *)
(* historical series is getRegionalHistoricalData(selectedRegion), a step  *)
(* that keeps the region keeps the historical series, and the CO2 series   *)
(* is the same in every state.                                             *)
(***************************************************************************)
C9_ShownIsCurrent ==
  /\ [](/\ metrics = Metrics(selectedYear, selectedRegion)
        /\ historicalData = Historical(selectedRegion)
        /\ view.cards = MetricCards(Metrics(selectedYear, selectedRegion),
                                    selectedRegion, selectedYear)
        /\ view.yearLabel = selectedYear
        /\ view.lineChart = Historical(selectedRegion)
        /\ view.areaChart = co2Data)
  /\ [][selectedRegion' = selectedRegion =>
          historicalData' = historicalData /\ view'.lineChart = view.lineChart]_vars

C9_Witness ==
  /\ selectedRegion = "Europe" /\ selectedYear = 2031
  /\ metricsMemo.deps = <<2031, "Europe">>
  /\ historicalMemo.deps = <<"Europe">>
  /\ refreshes /= <<>>

(***************************************************************************)
(* C10: every displayed metric is a non-negative number with exactly one   *)
(* fractional digit, so the "+" of the temperature, sea level and extreme  *)
(* events cards is never followed by a minus sign, and the temperature is  *)
(* at least 1.1.                                                           *)
(***************************************************************************)
C10_NonNegativeOneDecimal ==
  /\ \A f \in Fields : OneDecimal(metrics[f], FALSE) /\ Scaled(metrics[f]) >= 0
  /\ \A f \in {"temperature", "seaLevel", "extremeEvents"} :
       view.cards[f][1] = "+" /\ view.cards[f][2] /= "-"
  /\ view.cards.precipitation[1] /= "-"
  /\ Scaled(metrics.temperature) >= 11

C10_Witness ==
  /\ selectedYear = 2023 /\ selectedRegion = "Global"
  /\ metrics.temperature = <<"1", ".", "1">>
  /\ view.cards.extremeEvents = <<"+", "0", ".", "0", "%">>

=============================================================================
